---- MODULE Spec2Model ----
(***************************************************************************)
(* Model of seo-content-gap-analysis.py: the keyword extraction            *)
(* (extract_keyword_info), the gap analysis (content_gap_analysis) and the *)
(* DynamoDB upsert (save_or_update_dynamo_db).                             *)
(*                                                                         *)
(* Python values are tagged records: t is the Python type, v the payload.  *)
(* A str is a sequence of one-character strings, so that lower() and       *)
(* strip() are computed and not assumed.  A dict is a function from its    *)
(* keys.  An exception is the value Raise(e).                              *)
(***************************************************************************)
EXTENDS Integers, Sequences, FiniteSets, TLC

VARIABLES
    \* content_gap_analysis
    pc,               \* position in content_gap_analysis
    my_domain,        \* argument my_domain
    competitors,      \* argument competitors (a list)
    responses,        \* what get_keywords returned, one entry per call so far
    my_keywords_df,   \* local my_keywords_df
    all_keywords,     \* local dict all_keywords
    common_keywords,  \* local dict common_keywords
    idx,              \* index of the next competitor of the for loop
    warnings,         \* competitors the "No keywords retrieved" warning named
    result,           \* what content_gap_analysis returned
    \* extract_keyword_info called on its own
    xargs,            \* the arguments (df, domain_list) of the call
    xout,             \* what the call returned or raised
    \* save_or_update_dynamo_db
    table,            \* the DynamoDB table: key -> item
    nuuid,            \* number of uuid4() values drawn so far
    now,              \* datetime.utcnow(), later at every call
    lastcall          \* arguments and return value of the last call

vars == <<pc, my_domain, competitors, responses, my_keywords_df, all_keywords,
          common_keywords, idx, warnings, result, xargs, xout,
          table, nuuid, now, lastcall>>

gapVars == <<pc, my_domain, competitors, responses, my_keywords_df,
             all_keywords, common_keywords, idx, warnings, result>>
extractVars == <<xargs, xout>>
storeVars == <<table, nuuid, now, lastcall>>

-----------------------------------------------------------------------------
(* Bounds *)

\* longest item list get_keywords returns for the primary domain
MaxItems == 2
\* longest item list get_keywords returns for a competitor
MaxCompetitorItems == 1
\* number of save_or_update_dynamo_db calls
MaxCalls == 3

-----------------------------------------------------------------------------
(* Python values *)

None == [t |-> "None"]
NaN == [t |-> "nan"]
Num(n) == [t |-> "num", v |-> n]
Str(s) == [t |-> "str", v |-> s]
Dict(f) == [t |-> "dict", f |-> f]
Raise(e) == [t |-> "raise", e |-> e]
\* a key the JSON object does not carry (used only to build inputs)
Absent == [t |-> "absent"]

EmptyDict == Dict([k \in {} |-> None])

\* the JSON object with the entries of f whose value is not Absent
MkDict(f) == Dict([k \in {j \in DOMAIN f : f[j] # Absent} |-> f[k]])

IsRaise(x) == x.t = "raise"

\* isinstance(x, dict)
IsDict(x) == x.t = "dict"

\* bool(x)
Truthy(x) ==
    CASE x.t = "dict" -> DOMAIN x.f # {}
      [] x.t = "num" -> x.v # 0
      [] x.t = "str" -> x.v # <<>>
      [] x.t = "nan" -> TRUE
      [] OTHER -> FALSE

\* x.get(key, default); x.get on a value that is no dict raises AttributeError
Get(x, key, default) ==
    IF IsRaise(x) THEN x
    ELSE IF ~IsDict(x) THEN Raise("AttributeError")
    ELSE IF key \in DOMAIN x.f THEN x.f[key]
    ELSE default

\* str.lower() on one character, for the characters the inputs use
LowerChar(c) ==
    CASE c = "A" -> "a"
      [] c = "B" -> "b"
      [] c = "N" -> "n"
      [] OTHER -> c

\* str.lower()
Lower(s) == [i \in 1..Len(s) |-> LowerChar(s[i])]

RECURSIVE LStrip(_)
LStrip(s) == IF s # <<>> /\ Head(s) = " " THEN LStrip(Tail(s)) ELSE s

RECURSIVE RStrip(_)
RStrip(s) ==
    IF s # <<>> /\ s[Len(s)] = " " THEN RStrip(SubSeq(s, 1, Len(s) - 1)) ELSE s

\* str.strip()
Strip(s) == RStrip(LStrip(s))

NA == <<"N", "/", "A">>

-----------------------------------------------------------------------------
(* pandas *)

\* columns of pd.DataFrame(items): every key some item carries
Columns(items) == UNION {DOMAIN items[i].f : i \in 1..Len(items)}

\* the cell of a row under a column; a key the row's item lacks is NaN
Cell(item, col) == IF col \in DOMAIN item.f THEN item.f[col] ELSE NaN

\* the check of df.empty left out: no frame counts as empty
DfEmptyUnchecked(items) == FALSE

\* df.empty: no rows or no columns
DfEmpty(items) == Len(items) = 0 \/ Columns(items) = {}

\* a DataFrame: its column labels and its rows
Frame(cols, rows) == [t |-> "df", cols |-> cols, rows |-> rows]

\* pd.DataFrame()
EmptyFrame == Frame(<<>>, <<>>)

-----------------------------------------------------------------------------
(* extract_keyword_info *)

\* lambda of df['keyword']
KeywordOf(x) == IF IsDict(x) THEN Get(x, "keyword", Str(NA)) ELSE Str(NA)

\* lambda of df['search_volume']
SearchVolumeOf(x) ==
    IF IsDict(x)
    THEN Get(Get(x, "keyword_info", EmptyDict), "search_volume", Num(0))
    ELSE Num(0)

\* lambda of df['Keyword_Difficulty']
KeywordDifficultyOf(x) ==
    IF IsDict(x)
    THEN Get(Get(x, "keyword_properties", EmptyDict), "keyword_difficulty", Num(0))
    ELSE Num(0)

\* lambda of df['CPC']
CpcOf(x) ==
    IF ~IsDict(x) THEN Num(0)
    ELSE LET c == Get(Get(x, "keyword_info", EmptyDict), "cpc", None)
         IN  IF IsRaise(c) THEN c
             ELSE IF c # None
                  THEN Get(Get(x, "keyword_info", EmptyDict), "cpc", Num(0))
                  ELSE Num(0)

\* lambda of df['last_updated_time']
LastUpdatedOf(x) ==
    IF IsDict(x)
    THEN Get(Get(x, "keyword_info", EmptyDict), "last_updated_time", Str(NA))
    ELSE Str(NA)

\* lambda of df[f"{domain}_Position"], applied to the keyword_data cell
PositionOf(x) ==
    IF IsDict(x) /\ Truthy(Get(x, "avg_backlinks_info", None))
    THEN Get(Get(x, "avg_backlinks_info", EmptyDict), "rank", Num(0))
    ELSE Num(0)

\* lambda of df[f"{domain}_Traffic"], applied to the ranked_serp_element cell
TrafficOf(x) ==
    IF IsDict(x) /\ Truthy(Get(x, "serp_item", None))
    THEN Get(Get(x, "serp_item", EmptyDict), "etv", Num(0))
    ELSE Num(0)

Range(s) == {s[i] : i \in 1..Len(s)}

\* columns_to_keep: a label is <<domain, name>>, the domain "" for the core columns
ColumnsToKeep(domain_list) ==
    << <<"", "keyword">>, <<"", "search_volume">>, <<"", "Keyword_Difficulty">>,
       <<"", "CPC">>, <<"", "last_updated_time">> >>
    \o [i \in 1..Len(domain_list) |-> <<domain_list[i], "Position">>]
    \o [i \in 1..Len(domain_list) |-> <<domain_list[i], "Traffic">>]

\* the domains that have a column of the given kind among the labels cols
DomainsOf(cols, kind) == {c[1] : c \in {x \in Range(cols) : x[2] = kind}}

\* the core cells of one row, in the order the columns are assigned
CoreCells(item) ==
    LET kd == Cell(item, "keyword_data")
    IN  << KeywordOf(kd), SearchVolumeOf(kd), KeywordDifficultyOf(kd),
           CpcOf(kd), LastUpdatedOf(kd) >>

\* one row of the returned frame; Position and Traffic hold the cells of
\* the f"{domain}_Position" and f"{domain}_Traffic" columns, by domain
RowOf(item, domain_list) ==
    LET core == CoreCells(item)
        pos == PositionOf(Cell(item, "keyword_data"))
        trf == TrafficOf(Cell(item, "ranked_serp_element"))
    IN  [keyword |-> core[1],
         search_volume |-> core[2],
         Keyword_Difficulty |-> core[3],
         CPC |-> core[4],
         last_updated_time |-> core[5],
         Position |-> [d \in Range(domain_list) |-> pos],
         Traffic |-> [d \in Range(domain_list) |-> trf]]

\* whether an assignment of a core column raises on this row
CoreRaises(item) ==
    LET core == CoreCells(item)
    IN  IsRaise(core[1]) \/ IsRaise(core[2]) \/ IsRaise(core[3])
            \/ IsRaise(core[4]) \/ IsRaise(core[5])

\* the exception the column assignments raise, None when they raise none
ExtractError(items, domain_list) ==
    LET n == Len(items)
        cols == Columns(items)
    IN  IF "keyword_data" \notin cols THEN Raise("KeyError")
        ELSE IF \E i \in 1..n : CoreRaises(items[i]) THEN Raise("AttributeError")
        ELSE IF domain_list = <<>> THEN None
        ELSE IF \E i \in 1..n : IsRaise(PositionOf(Cell(items[i], "keyword_data")))
             THEN Raise("AttributeError")
        ELSE IF "ranked_serp_element" \notin cols THEN Raise("KeyError")
        ELSE IF \E i \in 1..n :
                    IsRaise(TrafficOf(Cell(items[i], "ranked_serp_element")))
             THEN Raise("AttributeError")
        ELSE None

\* extract_keyword_info(df, domain_list), df = pd.DataFrame(items)
extract_keyword_info(items, domain_list) ==
    IF DfEmpty(items) THEN EmptyFrame
    ELSE LET err == ExtractError(items, domain_list)
         IN  IF err # None THEN err
             ELSE Frame(ColumnsToKeep(domain_list),
                        [i \in 1..Len(items) |-> RowOf(items[i], domain_list)])

-----------------------------------------------------------------------------
(* Python dict: the <<key, value>> pairs in insertion order *)

DictKeys(d) == [i \in 1..Len(d) |-> d[i][1]]

DictValues(d) == [i \in 1..Len(d) |-> d[i][2]]

DictHas(d, k) == \E i \in 1..Len(d) : d[i][1] = k

\* d[k], for a key d holds
DictGet(d, k) == d[CHOOSE i \in 1..Len(d) : d[i][1] = k][2]

\* d[k] = v on a dict that appends on every assignment (a list of pairs)
DictSetAppend(d, k, v) == Append(d, <<k, v>>)

\* d[k] = v: a key d holds keeps its place and takes the new value
DictSet(d, k, v) ==
    IF DictHas(d, k)
    THEN [i \in 1..Len(d) |-> IF d[i][1] = k THEN <<k, v>> ELSE d[i]]
    ELSE Append(d, <<k, v>>)

-----------------------------------------------------------------------------
(* content_gap_analysis *)

KW == <<"", "keyword">>

\* .str.lower().str.strip() on one cell; a cell that is no str becomes NaN
NormalizeKeyword(v) == IF v.t = "str" THEN Str(Strip(Lower(v.v))) ELSE NaN

\* df['keyword'] = df['keyword'].str.lower().str.strip()
NormalizeFrame(df) ==
    IF KW \notin Range(df.cols) THEN Raise("KeyError")
    ELSE Frame(df.cols,
               [i \in 1..Len(df.rows) |->
                    [df.rows[i] EXCEPT !.keyword = NormalizeKeyword(@)]])

\* set(df['keyword'])
KeywordSet(df) == {df.rows[i].keyword : i \in 1..Len(df.rows)}

\* my_df[my_df['keyword'].isin(comp_df['keyword'])] after drop_duplicates('keyword')
CommonKeywordsOfDedup(my_df, comp_df) ==
    Frame(my_df.cols,
          SelectSeq([i \in 1..Len(my_df.rows) |-> <<i, my_df.rows[i]>>],
                    LAMBDA p : /\ p[2].keyword \in KeywordSet(comp_df)
                               /\ \A j \in 1..(p[1] - 1) :
                                      my_df.rows[j].keyword # p[2].keyword))

RECURSIVE FilterRows(_, _)
FilterRows(rows, keep) ==
    IF rows = <<>> THEN <<>>
    ELSE IF Head(rows).keyword \in keep
         THEN <<Head(rows)>> \o FilterRows(Tail(rows), keep)
         ELSE FilterRows(Tail(rows), keep)

\* my_keywords_df[my_keywords_df['keyword'].isin(competitor_df['keyword'])]
CommonKeywordsOf(my_df, comp_df) ==
    Frame(my_df.cols, FilterRows(my_df.rows, KeywordSet(comp_df)))

\* the count of a row-wise membership test: rows of domain1 found in domain2
CommonCountIsin(domain1, domain2, all) ==
    Len(FilterRows(DictGet(all, domain1).rows, KeywordSet(DictGet(all, domain2))))

\* the count without the domain1 == domain2 case: the set intersection throughout
CommonCountNoDiagonal(domain1, domain2, all) ==
    Cardinality(KeywordSet(DictGet(all, domain1))
                    \cap KeywordSet(DictGet(all, domain2)))

\* common_count of one pair of the double loop
CommonCount(domain1, domain2, all) ==
    IF domain1 = domain2
    THEN Len(DictGet(all, domain1).rows)
    ELSE Cardinality(KeywordSet(DictGet(all, domain1))
                        \cap KeywordSet(DictGet(all, domain2)))

\* common_keywords_matrix after the double loop.  A label all_keywords lacks
\* raises KeyError.  .at on a repeated label writes every cell under the
\* label, so a cell holds the count of its row's and its column's label.
BuildMatrix(domain_names, all) ==
    IF \E i \in 1..Len(domain_names) : ~DictHas(all, domain_names[i])
    THEN Raise("KeyError")
    ELSE [t |-> "matrix",
          index |-> domain_names,
          at |-> [c \in (1..Len(domain_names)) \X (1..Len(domain_names)) |->
                     CommonCount(domain_names[c[1]], domain_names[c[2]], all)]]

RECURSIVE UnionLabels(_, _)
\* the labels of the frames in order of first appearance
UnionLabels(frames, seen) ==
    IF frames = <<>> THEN seen
    ELSE UnionLabels(Tail(frames),
                     seen \o SelectSeq(Head(frames).cols,
                                       LAMBDA c : c \notin Range(seen)))

IsUnique(s) == Cardinality(Range(s)) = Len(s)

\* a row under the labels cols, NaN where the row has no such label
Reindex(row, cols) ==
    [row EXCEPT
        !.Position = [d \in DomainsOf(cols, "Position") |->
                         IF d \in DOMAIN row.Position THEN row.Position[d] ELSE NaN],
        !.Traffic = [d \in DomainsOf(cols, "Traffic") |->
                        IF d \in DOMAIN row.Traffic THEN row.Traffic[d] ELSE NaN]]

RECURSIVE ConcatRows(_, _)
ConcatRows(frames, cols) ==
    IF frames = <<>> THEN <<>>
    ELSE [i \in 1..Len(Head(frames).rows) |-> Reindex(Head(frames).rows[i], cols)]
         \o ConcatRows(Tail(frames), cols)

\* pd.concat(frames, ignore_index=True)
Concat(frames) ==
    IF frames = <<>> THEN Raise("ValueError")
    ELSE IF \A i \in 1..Len(frames) : frames[i].cols = frames[1].cols
         THEN Frame(frames[1].cols, ConcatRows(frames, frames[1].cols))
         ELSE IF \E i \in 1..Len(frames) : ~IsUnique(frames[i].cols)
              THEN Raise("InvalidIndexError")
              ELSE Frame(UnionLabels(frames, <<>>),
                         ConcatRows(frames, UnionLabels(frames, <<>>)))

\* the value content_gap_analysis returns from the dicts the loop has filled
BuildResult(domain_names, all, common) ==
    LET matrix == BuildMatrix(domain_names, all)
        all_df == Concat(DictValues(all))
        common_df == Concat(DictValues(common))
    IN  IF IsRaise(matrix) THEN matrix
        ELSE IF IsRaise(all_df) THEN all_df
        ELSE IF IsRaise(common_df) THEN common_df
        ELSE [t |-> "result",
              all_keywords_df |-> all_df,
              common_keywords_df |-> common_df,
              common_keywords_matrix |-> matrix]

-----------------------------------------------------------------------------
(* Inputs of the gap analysis *)

Keywords == { <<"a">>, <<" ", "A">>, <<"b">> }

\* an item of the ranked_keywords response, every structure present
RankedItem(k) ==
    Dict([c \in {"keyword_data", "ranked_serp_element"} |->
        IF c = "keyword_data"
        THEN Dict([f \in {"keyword", "keyword_info", "keyword_properties",
                          "avg_backlinks_info"} |->
                CASE f = "keyword" -> Str(k)
                  [] f = "keyword_info" ->
                        Dict([g \in {"search_volume", "cpc", "last_updated_time"} |->
                            CASE g = "search_volume" -> Num(5)
                              [] g = "cpc" -> Num(2)
                              [] OTHER -> Str(<<"t">>)])
                  [] f = "keyword_properties" ->
                        Dict([g \in {"keyword_difficulty"} |-> Num(7)])
                  [] OTHER -> Dict([g \in {"rank"} |-> Num(4)])])
        ELSE Dict([f \in {"serp_item"} |-> Dict([g \in {"etv"} |-> Num(6)])])])

RankedItems == {RankedItem(k) : k \in Keywords}

SeqsUpTo(S, n) == UNION {[1..m -> S] : m \in 0..n}

\* what get_keywords can return ([] also on any transport failure)
PrimaryResponses == SeqsUpTo(RankedItems, MaxItems)

CompetitorResponses == SeqsUpTo(RankedItems, MaxCompetitorItems)

PrimaryDomains == {"p"}

CompetitorLists ==
    { <<>>, <<"c1">>, <<"p">>, <<"c1", "c2">>, <<"c1", "c1">>, <<"p", "c1">>,
      <<"p", "p">> }

GapIdle ==
    /\ pc = "idle"
    /\ my_domain = ""
    /\ competitors = <<>>
    /\ responses = <<>>
    /\ my_keywords_df = None
    /\ all_keywords = <<>>
    /\ common_keywords = <<>>
    /\ idx = 0
    /\ warnings = <<>>
    /\ result = None

ExtractIdle == xargs = None /\ xout = None

StoreIdle ==
    /\ table = [k \in {} |-> None]
    /\ nuuid = 0
    /\ now = 0
    /\ lastcall = None

\* content_gap_analysis(competitors, my_domain) has been called
Init ==
    /\ pc = "start"
    /\ my_domain \in PrimaryDomains
    /\ competitors \in CompetitorLists
    /\ responses = <<>>
    /\ my_keywords_df = None
    /\ all_keywords = <<>>
    /\ common_keywords = <<>>
    /\ idx = 0
    /\ warnings = <<>>
    /\ result = None
    /\ ExtractIdle
    /\ StoreIdle

\* lines 167-188: the primary domain's keywords
RetrievePrimary ==
    /\ pc = "start"
    /\ \E items \in PrimaryResponses :
        /\ responses' = Append(responses, items)
        /\ IF DfEmpty(items)
           THEN /\ pc' = "returned_none"
                /\ result' = None
                /\ UNCHANGED <<my_keywords_df, all_keywords, idx>>
           ELSE LET df == extract_keyword_info(items, <<my_domain>>)
                    norm == IF IsRaise(df) THEN df ELSE NormalizeFrame(df)
                IN  IF IsRaise(norm)
                    THEN /\ pc' = "raised"
                         /\ result' = norm
                         /\ UNCHANGED <<my_keywords_df, all_keywords, idx>>
                    ELSE /\ pc' = "loop"
                         /\ my_keywords_df' = norm
                         /\ all_keywords' = DictSet(<<>>, my_domain, norm)
                         /\ idx' = 1
                         /\ UNCHANGED result
    /\ UNCHANGED <<my_domain, competitors, common_keywords, warnings>>
    /\ UNCHANGED <<extractVars, storeVars>>

\* lines 191-211: one iteration of the loop over the competitors
ProcessCompetitor ==
    /\ pc = "loop"
    /\ idx <= Len(competitors)
    /\ \E items \in CompetitorResponses :
        LET competitor == competitors[idx]
        IN  /\ responses' = Append(responses, items)
            /\ IF DfEmpty(items)
               THEN /\ warnings' = Append(warnings, competitor)
                    /\ idx' = idx + 1
                    /\ UNCHANGED <<pc, all_keywords, common_keywords, result>>
               ELSE LET df == extract_keyword_info(items, competitors)
                        norm == IF IsRaise(df) THEN df ELSE NormalizeFrame(df)
                    IN  IF IsRaise(norm)
                        THEN /\ pc' = "raised"
                             /\ result' = norm
                             /\ UNCHANGED <<all_keywords, common_keywords,
                                            idx, warnings>>
                        ELSE /\ all_keywords' = DictSet(all_keywords, competitor, norm)
                             /\ common_keywords' =
                                    DictSet(common_keywords, competitor,
                                            CommonKeywordsOf(my_keywords_df, norm))
                             /\ idx' = idx + 1
                             /\ UNCHANGED <<pc, warnings, result>>
    /\ UNCHANGED <<my_domain, competitors, my_keywords_df>>
    /\ UNCHANGED <<extractVars, storeVars>>

\* lines 213-255: the matrix, the two concatenations and the return
Finish ==
    /\ pc = "loop"
    /\ idx > Len(competitors)
    /\ result' = BuildResult(<<my_domain>> \o competitors,
                             all_keywords, common_keywords)
    /\ pc' = IF IsRaise(result') THEN "raised" ELSE "done"
    /\ UNCHANGED <<my_domain, competitors, responses, my_keywords_df,
                   all_keywords, common_keywords, idx, warnings>>
    /\ UNCHANGED <<extractVars, storeVars>>

Next == RetrievePrimary \/ ProcessCompetitor \/ Finish

Spec == Init /\ [][Next]_vars

-----------------------------------------------------------------------------
(* extract_keyword_info on raw items with structures missing or null *)

KeywordChoices == {Absent, Str(<<" ", "A">>)}

KeywordInfoChoices ==
    {Absent, None}
    \cup {MkDict([g \in {"search_volume", "cpc", "last_updated_time"} |->
                    CASE g = "search_volume" -> sv
                      [] g = "cpc" -> cpc
                      [] OTHER -> lut]) :
            sv \in {Absent, Num(5)}, cpc \in {None, Num(2)},
            lut \in {Absent, Str(<<"t">>)}}

KeywordPropertiesChoices ==
    {Absent, None, Dict([g \in {"keyword_difficulty"} |-> Num(7)])}

BacklinksChoices == {Absent, None, Dict([g \in {"rank"} |-> Num(4)])}

KeywordDataChoices ==
    {Absent, None}
    \cup {MkDict([f \in {"keyword", "keyword_info", "keyword_properties",
                        "avg_backlinks_info"} |->
                    CASE f = "keyword" -> kw
                      [] f = "keyword_info" -> ki
                      [] f = "keyword_properties" -> kp
                      [] OTHER -> abi]) :
            kw \in KeywordChoices, ki \in KeywordInfoChoices,
            kp \in KeywordPropertiesChoices, abi \in BacklinksChoices}

\* avg_backlinks_info beside keyword_data
SiblingBacklinksChoices == {Absent, Dict([g \in {"rank"} |-> Num(9)])}

RankedSerpChoices ==
    {Absent, None}
    \cup {MkDict([f \in {"serp_item"} |-> si]) :
            si \in {Absent, None, Dict([g \in {"etv"} |-> Num(6)])}}

RawItems ==
    {MkDict([c \in {"keyword_data", "avg_backlinks_info", "ranked_serp_element"} |->
                CASE c = "keyword_data" -> kd
                  [] c = "avg_backlinks_info" -> abi
                  [] OTHER -> rse]) :
        kd \in KeywordDataChoices, abi \in SiblingBacklinksChoices,
        rse \in RankedSerpChoices}

\* the item lists handed to extract_keyword_info: none, one raw item, or a
\* raw item beside an item that has every structure
RawLists ==
    {<<>>}
    \cup {<<x>> : x \in RawItems}
    \cup {<<x, RankedItem(<<"b">>)>> : x \in RawItems}
    \cup {<<RankedItem(<<"b">>), x>> : x \in RawItems}

DomainLists == { <<>>, <<"p">>, <<"c1", "c2">> }

InitExtract == GapIdle /\ ExtractIdle /\ StoreIdle

\* extract_keyword_info(pd.DataFrame(items), domain_list)
ExtractCall ==
    /\ xargs = None
    /\ \E items \in RawLists, domain_list \in DomainLists :
        /\ xargs' = [t |-> "args", items |-> items, domain_list |-> domain_list]
        /\ xout' = extract_keyword_info(items, domain_list)
    /\ UNCHANGED <<gapVars, storeVars>>

NextExtract == ExtractCall

SpecExtract == InitExtract /\ [][NextExtract]_vars

-----------------------------------------------------------------------------
(* save_or_update_dynamo_db *)

\* json.dumps(data); a value json cannot serialize raises TypeError
JsonDumps(data) ==
    CASE data.t = "num" -> Str(<<ToString(data.v)>>)
      [] data.t = "None" -> Str(<<"null">>)
      [] data.t = "str" -> Str(<<"\"">> \o data.v \o <<"\"">>)
      [] OTHER -> Raise("TypeError")

\* f"Competitor Audit_{targets1} & {targets2}_{uuid.uuid4()}"
AuditId(targets1, targets2, uuid) ==
    Str(<<"Competitor Audit_", targets1, " & ", targets2, "_", ToString(uuid)>>)

\* the item put_item writes
NewItem(content_gap, targets1, targets2, id, userid, product, audit_id, current_timestamp) ==
    [id |-> id,
     UserId |-> userid,
     Product |-> product,
     AuditId |-> audit_id,
     KPIData_keyword_trends |-> Str(<<>>),
     KPIData_content_gap |-> content_gap,
     YourDomain |-> targets1,
     CompetitorDomains |-> targets2,
     CreatedAt |-> current_timestamp]

\* update_item with SET KPIData_content_gap = :content_gap, Product = :product
UpdateItem(item, content_gap, product) ==
    [item EXCEPT !.KPIData_content_gap = content_gap, !.Product = product]

\* the function with put_item on both branches: an existing item is replaced
SaveOrUpdateAlwaysPut(tbl, data, targets1, targets2, id, userid, product, audit_id, current_timestamp, failure) ==
    LET key == <<id, userid>>
        dumped == JsonDumps(data)
    IN  IF failure # "none" \/ IsRaise(dumped)
        THEN [table |-> tbl, ret |-> None]
        ELSE [table |-> [k \in DOMAIN tbl \cup {key} |->
                            IF k = key
                            THEN NewItem(dumped, targets1, targets2, id, userid,
                                         product, audit_id, current_timestamp)
                            ELSE tbl[k]],
              ret |-> audit_id]

\* the body of save_or_update_dynamo_db on the table tbl; failure names the
\* store call that raises ("get_item", "write" for update_item or put_item)
SaveOrUpdate(tbl, data, targets1, targets2, id, userid, product, audit_id, current_timestamp, failure) ==
    LET key == <<id, userid>>
        dumped == JsonDumps(data)
    IN  IF failure = "get_item" THEN [table |-> tbl, ret |-> None]
        ELSE IF key \in DOMAIN tbl
        THEN IF IsRaise(dumped) \/ failure = "write"
             THEN [table |-> tbl, ret |-> None]
             ELSE [table |-> [tbl EXCEPT ![key] = UpdateItem(@, dumped, product)],
                   ret |-> Str(<<id>>)]
        ELSE IF IsRaise(dumped) \/ failure = "write"
             THEN [table |-> tbl, ret |-> None]
             ELSE [table |-> [k \in DOMAIN tbl \cup {key} |->
                                 IF k = key
                                 THEN NewItem(dumped, targets1, targets2, id,
                                              userid, product, audit_id,
                                              current_timestamp)
                                 ELSE tbl[k]],
                   ret |-> audit_id]

Ids == {"id1", "id2"}
UserIds == {"u1"}
Products == {"seo", "audit"}
Targets1 == {"p", "q"}
Targets2 == {"c1,c2"}
\* analysis payloads: two that json serializes and a DataFrame, which it does not
Datas == {Num(1), Num(2), EmptyFrame}
Failures == {"none", "get_item", "write"}

InitStore == GapIdle /\ ExtractIdle /\ StoreIdle

\* one call of save_or_update_dynamo_db
SaveOrUpdateCall ==
    /\ nuuid < MaxCalls
    /\ \E data \in Datas, targets1 \in Targets1, targets2 \in Targets2,
          id \in Ids, userid \in UserIds, product \in Products,
          failure \in Failures :
        LET out == SaveOrUpdate(table, data, targets1, targets2, id, userid,
                                product,
                                AuditId(targets1, targets2, nuuid + 1),
                                now + 1, failure)
        IN  /\ nuuid' = nuuid + 1
            /\ now' = now + 1
            /\ table' = out.table
            /\ lastcall' = [t |-> "call", n |-> nuuid + 1, data |-> data,
                            targets1 |-> targets1, targets2 |-> targets2,
                            id |-> id, userid |-> userid, product |-> product,
                            failure |-> failure, ret |-> out.ret]
    /\ UNCHANGED <<gapVars, extractVars>>

NextStore == SaveOrUpdateCall

SpecStore == InitStore /\ [][NextStore]_vars

-----------------------------------------------------------------------------
(* Reference values over the responses of the gap analysis *)

\* the domain each get_keywords call was made for, in call order
Calls == <<my_domain>> \o competitors

Terminal == pc \in {"returned_none", "raised", "done"}

\* keyword_data.keyword of an item of the response
RawKeyword(item) == item.f["keyword_data"].f["keyword"]

\* the normalized keywords of a response
ResponseKeywords(items) ==
    {NormalizeKeyword(RawKeyword(items[i])) : i \in 1..Len(items)}

\* the last call made for a domain that returned items
LastCall(name) ==
    CHOOSE k \in 1..Len(responses) :
        /\ Calls[k] = name
        /\ responses[k] # <<>>
        /\ \A j \in (k + 1)..Len(responses) :
               Calls[j] # name \/ responses[j] = <<>>

\* the domain list a call's items are extracted under
ContextOf(k) == IF k = 1 THEN <<my_domain>> ELSE competitors

\* the dataset of call k: its items extracted and normalized, under cols
DatasetRows(k, cols) ==
    IF responses[k] = <<>> THEN <<>>
    ELSE LET df == NormalizeFrame(extract_keyword_info(responses[k], ContextOf(k)))
         IN  [i \in 1..Len(df.rows) |-> Reindex(df.rows[i], cols)]

RECURSIVE FirstOccurrences(_, _)
\* a list without the later repeats of a name
FirstOccurrences(s, seen) ==
    IF s = <<>> THEN <<>>
    ELSE IF Head(s) \in seen THEN FirstOccurrences(Tail(s), seen)
    ELSE <<Head(s)>> \o FirstOccurrences(Tail(s), seen \cup {Head(s)})

RECURSIVE SumSeq(_)
SumSeq(s) == IF s = <<>> THEN 0 ELSE Head(s) + SumSeq(Tail(s))

RECURSIVE Flatten(_)
Flatten(ss) == IF ss = <<>> THEN <<>> ELSE Head(ss) \o Flatten(Tail(ss))

Matrix == result.common_keywords_matrix

MatrixSize == Len(Matrix.index)

-----------------------------------------------------------------------------
(* Claims about content_gap_analysis, under Spec *)

\* C1: when the primary domain has data and some competitor's fetch returns
\* no items, the analysis still returns a result; the competitor is skipped
\* with a warning, has no row or column in the matrix and no entry in
\* commonKeywords, and the primary dataset is untouched.
C1_SkippedCompetitorStillCompletes ==
    (/\ pc \in {"raised", "done"}
     /\ responses[1] # <<>>
     /\ \E k \in 2..Len(responses) : responses[k] = <<>>)
    => /\ pc = "done"
       /\ \A k \in 2..Len(responses) :
              responses[k] = <<>> =>
                  /\ Calls[k] \in Range(warnings)
                  /\ Calls[k] \notin Range(Matrix.index)
                  /\ ~DictHas(common_keywords, Calls[k])
       /\ my_keywords_df.rows = DatasetRows(1, my_keywords_df.cols)

\* C2: an empty item list for the primary domain makes content_gap_analysis
\* return None: no competitor is fetched and no dataset, matrix or common
\* keywords are produced, whatever the competitor list.
C2_FatalEmptyPrimary ==
    (Len(responses) >= 1 /\ responses[1] = <<>>)
    => /\ pc = "returned_none"
       /\ result = None
       /\ Len(responses) = 1
       /\ my_keywords_df = None
       /\ all_keywords = <<>>
       /\ common_keywords = <<>>

C2_Witness ==
    /\ pc = "returned_none"
    /\ responses = << <<>> >>
    /\ Len(competitors) = 2

\* C3: the matrix of a completed analysis is symmetric.
C3_MatrixSymmetric ==
    pc = "done" =>
        \A i, j \in 1..MatrixSize : Matrix.at[<<i, j>>] = Matrix.at[<<j, i>>]

C3_Witness ==
    /\ pc = "done"
    /\ \E i, j \in 1..MatrixSize :
        /\ Matrix.index[i] # Matrix.index[j]
        /\ Matrix.at[<<i, j>>] = 1
        /\ Matrix.at[<<i, i>>] = 2
        /\ Matrix.at[<<j, j>>] = 1

\* C4: in a completed analysis the cell of a domain with itself is the number
\* of records of the domain's dataset, duplicates counted, and the cell of
\* two different domains is the number of distinct normalized keywords that
\* occur in both datasets.
C4_MatrixEntries ==
    pc = "done" =>
        \A i, j \in 1..MatrixSize :
            LET a == Matrix.index[i]
                b == Matrix.index[j]
            IN  Matrix.at[<<i, j>>] =
                    IF a = b
                    THEN Len(responses[LastCall(a)])
                    ELSE Cardinality(ResponseKeywords(responses[LastCall(a)])
                                \cap ResponseKeywords(responses[LastCall(b)]))

\* a dataset of two records with one normalized keyword, shared with another domain
C4_Witness ==
    /\ pc = "done"
    /\ \E i, j \in 1..MatrixSize :
        /\ Matrix.index[i] # Matrix.index[j]
        /\ Len(responses[LastCall(Matrix.index[i])]) = 2
        /\ Cardinality(ResponseKeywords(responses[LastCall(Matrix.index[i])])) = 1
        /\ Matrix.at[<<i, j>>] = 1

\* C5: the common-keyword subset of a competitor that returned data is the
\* primary dataset's records, in primary order and with duplicates kept,
\* whose normalized keyword occurs in the competitor's dataset.
C5_CommonSubset ==
    \A k \in 2..Len(responses) :
        (responses[k] # <<>> /\ LastCall(Calls[k]) = k)
        => /\ DictHas(common_keywords, Calls[k])
           /\ my_keywords_df.rows = DatasetRows(1, my_keywords_df.cols)
           /\ DictGet(common_keywords, Calls[k]).rows =
                  SelectSeq(my_keywords_df.rows,
                            LAMBDA r : r.keyword \in ResponseKeywords(responses[k]))

\* a subset that keeps two primary records of one keyword, and one that
\* leaves a primary record out
C5_Witness ==
    /\ pc = "done"
    /\ Len(common_keywords) = 2
    /\ Len(common_keywords[1][2].rows) = 2
    /\ common_keywords[1][2].rows[1].keyword = common_keywords[1][2].rows[2].keyword
    /\ Len(common_keywords[2][2].rows) = 0

\* the datasets of the calls that returned items, in call order
DatasetsInCallOrder(cols) ==
    Flatten([k \in 1..Len(responses) |-> DatasetRows(k, cols)])

\* the datasets last fetched under each name, in order of the names' first call
DatasetsByName(cols) ==
    LET names == FirstOccurrences(Calls, {})
    IN  Flatten([n \in 1..Len(names) |-> DatasetRows(LastCall(names[n]), cols)])

\* C7 as claimed: allKeywords is the concatenation of the datasets of the
\* primary domain and of every competitor with data, one per entry of the
\* competitor list, and its length is the sum of the matrix diagonal.
C7_AllKeywordsPerListEntry ==
    pc = "done" =>
        /\ result.all_keywords_df.rows
               = DatasetsInCallOrder(result.all_keywords_df.cols)
        /\ Len(result.all_keywords_df.rows)
               = SumSeq([i \in 1..MatrixSize |-> Matrix.at[<<i, i>>]])

\* C7 amended: allKeywords is the concatenation of one dataset per distinct
\* domain name, the one last fetched under the name, in order of the names'
\* first appearance in [primary] + competitors; its length is the sum of the
\* diagonal cells taken once per distinct name.
C7_AllKeywordsPerName ==
    pc = "done" =>
        LET names == FirstOccurrences(Matrix.index, {})
            first(n) == CHOOSE i \in 1..MatrixSize :
                            /\ Matrix.index[i] = n
                            /\ \A j \in 1..(i - 1) : Matrix.index[j] # n
        IN  /\ result.all_keywords_df.rows
                   = DatasetsByName(result.all_keywords_df.cols)
            /\ Len(result.all_keywords_df.rows)
                   = SumSeq([n \in 1..Len(names) |->
                                Matrix.at[<<first(names[n]), first(names[n])>>]])

\* a completed analysis whose competitor list names the primary domain
C7_Witness ==
    /\ pc = "done"
    /\ competitors = <<"p", "c1">>
    /\ Len(result.all_keywords_df.rows) = 2
    /\ SumSeq([i \in 1..MatrixSize |-> Matrix.at[<<i, i>>]]) = 3

\* C8: whenever the primary domain has data the analysis returns a result
\* whose commonKeywords is the concatenation, in competitor order, of the
\* subsets of the competitors that returned data; also for an empty competitor
\* list and when no competitor returns data.
C8_BestEffortResult ==
    (Terminal /\ responses[1] # <<>>)
    => /\ pc = "done"
       /\ result.common_keywords_df.rows =
              Flatten([k \in 1..Len(competitors) |->
                          SelectSeq(my_keywords_df.rows,
                                    LAMBDA r : r.keyword
                                        \in ResponseKeywords(responses[k + 1]))])

-----------------------------------------------------------------------------
(* Claims about extract_keyword_info, under SpecExtract *)

\* x[key] when x is a dict that carries key, None otherwise
SafeGet(x, key) == IF x.t = "dict" /\ key \in DOMAIN x.f THEN x.f[key] ELSE None

OrDefault(v, default) == IF v = None THEN default ELSE v

\* C6: extract_keyword_info never fails and never drops a record: one record
\* per item in input order, with "N/A", 0, 0, 0 and "N/A" for every field
\* that cannot be read, whatever structure is missing or null.
C6_ExtractNeverFails ==
    xargs # None =>
        /\ xout.t = "df"
        /\ Len(xout.rows) = Len(xargs.items)
        /\ \A i \in 1..Len(xargs.items) :
            LET kd == SafeGet(xargs.items[i], "keyword_data")
                ki == SafeGet(kd, "keyword_info")
                kp == SafeGet(kd, "keyword_properties")
                row == xout.rows[i]
            IN  /\ row.keyword = OrDefault(SafeGet(kd, "keyword"), Str(NA))
                /\ row.search_volume = OrDefault(SafeGet(ki, "search_volume"), Num(0))
                /\ row.Keyword_Difficulty
                       = OrDefault(SafeGet(kp, "keyword_difficulty"), Num(0))
                /\ row.CPC = OrDefault(SafeGet(ki, "cpc"), Num(0))
                /\ row.last_updated_time
                       = OrDefault(SafeGet(ki, "last_updated_time"), Str(NA))

\* an item shaped as the provider response: keyword_data with its three
\* members, avg_backlinks_info and ranked_serp_element beside it or absent
ProviderShaped(item) ==
    LET kd == SafeGet(item, "keyword_data")
        abi == SafeGet(item, "avg_backlinks_info")
        rse == SafeGet(item, "ranked_serp_element")
    IN  /\ kd.t = "dict"
        /\ DOMAIN kd.f = {"keyword", "keyword_info", "keyword_properties"}
        /\ SafeGet(kd, "keyword_info").t = "dict"
        /\ DOMAIN SafeGet(kd, "keyword_info").f
               = {"search_volume", "cpc", "last_updated_time"}
        /\ SafeGet(kd, "keyword_properties").t = "dict"
        /\ "avg_backlinks_info" \in DOMAIN item.f => abi.t = "dict"
        /\ "ranked_serp_element" \in DOMAIN item.f
               => rse.t = "dict" /\ SafeGet(rse, "serp_item").t = "dict"

\* C10: for items shaped as the provider response the record has position
\* and traffic entries for exactly the domains of the context, every
\* position the item's avg_backlinks_info.rank and every traffic the item's
\* ranked_serp_element.serp_item.etv, 0 when the structure is absent.
C10_PositionTrafficFromItem ==
    (/\ xargs # None
     /\ xargs.items # <<>>
     /\ \A i \in 1..Len(xargs.items) : ProviderShaped(xargs.items[i]))
    => /\ xout.t = "df"
       /\ Len(xout.rows) = Len(xargs.items)
       /\ \A i \in 1..Len(xargs.items) :
            LET item == xargs.items[i]
                rank == SafeGet(SafeGet(item, "avg_backlinks_info"), "rank")
                etv == SafeGet(SafeGet(SafeGet(item, "ranked_serp_element"),
                                       "serp_item"), "etv")
                row == xout.rows[i]
            IN  /\ DOMAIN row.Position = Range(xargs.domain_list)
                /\ DOMAIN row.Traffic = Range(xargs.domain_list)
                /\ \A d \in Range(xargs.domain_list) :
                       /\ row.Position[d] = OrDefault(rank, Num(0))
                       /\ row.Traffic[d] = OrDefault(etv, Num(0))

-----------------------------------------------------------------------------
(* Claims about save_or_update_dynamo_db, under SpecStore *)

====
